---------------------------- MODULE Spec2Model ----------------------------
(***************************************************************************)
(* A model of amtool's `cp` command: the location parser, the path         *)
(* accessor, writeToLocation with its serializers and the AMFS tree        *)
(* writer (src/src/shared.ts), and the one-shot / watch orchestration of   *)
(* cpFromAutomerge, cpFromFile and cpFromPipe (src/unnamed/part_000).      *)
(*                                                                         *)
(* Text is a sequence of one-character strings, so that startsWith, split, *)
(* join and the JSON serializer are computed character by character.       *)
(***************************************************************************)
EXTENDS Integers, Sequences, FiniteSets, TLC

VARIABLES
  \* --- SpecLoc: the parse / stringify round trip
  lpc,        \* "input" | "parsed" | "stringified" | "reparsed"
  addr,       \* the address text handed to parseLocation
  loc,        \* parseLocation(addr)
  str,        \* stringifyLocation(loc)
  loc2,       \* parseLocation(str)
  \* --- the world writeToLocation acts on
  fsys,       \* the file system: path -> [kind, data]
  stdout,     \* the chunks written to process.stdout, in order
  pending,    \* the fsP.writeFile calls started and not yet completed
  docs,       \* the document store: docUrl -> root value, Undefined when absent
  last,       \* the most recently finished writeToLocation call
  \* --- the cp process
  args,       \* the command line: [src, dst, watch, raw, fs]
  pc,         \* where the process is
  thrown,     \* the error that left the handler (or ended the process)
  exitCode,   \* the status process.exit was called with, "none" before
  handlers,   \* the suspended per-event (or one-shot) copies
  stderr,     \* the lines written with console.error, in order
  stdin,      \* the input lines not yet read
  events,     \* the change events emitted by the source and not yet delivered
  nevents,    \* the change events / input lines delivered so far
  io,         \* the kinds of I/O performed so far
  \* --- SpecPath: setAtPath followed by getAtPath
  ppc,        \* "input" | "set" | "got"
  pathRoot,   \* the value handed to setAtPath as doc
  pathKeys,   \* the path
  pathValue,  \* the value to assign
  pathSet,    \* setAtPath's outcome: [err, v], v the value doc then is
  pathGot     \* getAtPath(doc, path) after it: [err, v]

locVars   == <<lpc, addr, loc, str, loc2>>
worldVars == <<fsys, stdout, pending, docs, last>>
procVars  == <<args, pc, thrown, exitCode, handlers, stderr, stdin, events, nevents, io>>
pathVars  == <<ppc, pathRoot, pathKeys, pathValue, pathSet, pathGot>>
vars      == <<locVars, pathVars, worldVars, procVars>>

(***************************************************************************)
(* Text helpers (JavaScript String methods used by the source).            *)
(***************************************************************************)
\* s.startsWith(p)
StartsWith(s, p) == Len(s) >= Len(p) /\ SubSeq(s, 1, Len(p)) = p

\* index of the first occurrence of character c in s, 0 when there is none
IndexOf(s, c) ==
  IF \E i \in 1..Len(s) : s[i] = c
  THEN CHOOSE i \in 1..Len(s) : s[i] = c /\ \A j \in 1..(i - 1) : s[j] # c
  ELSE 0

\* s.split(c): always at least one part; "" splits to [""]
RECURSIVE Split(_, _)
Split(s, c) ==
  LET i == IndexOf(s, c)
  IN  IF i = 0 THEN <<s>>
      ELSE <<SubSeq(s, 1, i - 1)>> \o Split(SubSeq(s, i + 1, Len(s)), c)

\* parts.join(c): [] joins to ""
RECURSIVE Join(_, _)
Join(parts, c) ==
  IF Len(parts) = 0 THEN <<>>
  ELSE IF Len(parts) = 1 THEN parts[1]
  ELSE parts[1] \o <<c>> \o Join(Tail(parts), c)

IsInk(c) == c \notin {" ", "\n"}

\* the text without its blanks and line breaks
StripWs(text) == SelectSeq(text, IsInk)

Dash      == <<"-">>
Scheme    == <<"a", "u", "t", "o", "m", "e", "r", "g", "e", ":">>  \* "automerge:"
PipeText  == <<"p", "i", "p", "e">>                                \* the type tag "pipe"

(***************************************************************************)
(* LOCATIONS  (shared.ts 29-63)                                            *)
(***************************************************************************)
LocationPipe             == [type |-> "pipe"]
LocationFile(p)          == [type |-> "file", path |-> p]
LocationAutomerge(u, p)  == [type |-> "automerge", docUrl |-> u, path |-> p]

NoLoc == [type |-> "none"]

parseLocation(s) ==
  IF s = Dash THEN LocationPipe
  ELSE IF StartsWith(s, Scheme)
       THEN LET parts == Split(s, "/")
            IN  LocationAutomerge(Head(parts), Tail(parts))
       ELSE LocationFile(s)

stringifyLocation(l) ==
  IF l.type = "automerge" THEN Join(<<l.docUrl>> \o l.path, "/")
  ELSE IF l.type = "file" THEN l.path
  ELSE PipeText        \* return l.type

(***************************************************************************)
(* VALUES.  A JavaScript value is a record                                 *)
(*   t    : "undefined" | "null" | "boolean" | "number" | "string"         *)
(*          | "bytes" (Uint8Array) | "array" | "object"                    *)
(*   a    : the text of a string, or the literal of a boolean or number    *)
(*   b    : the bytes of a Uint8Array                                      *)
(*   kids : the own properties in insertion order, each [k, v]; an array's *)
(*          keys are its indices "0", "1", ...                             *)
(***************************************************************************)
Undefined   == [t |-> "undefined", a |-> <<>>, b |-> <<>>, kids |-> <<>>]
Null        == [t |-> "null", a |-> <<"n", "u", "l", "l">>, b |-> <<>>, kids |-> <<>>]
True        == [t |-> "boolean", a |-> <<"t", "r", "u", "e">>, b |-> <<>>, kids |-> <<>>]
Num(lit)    == [t |-> "number", a |-> lit, b |-> <<>>, kids |-> <<>>]
Str(text)   == [t |-> "string", a |-> text, b |-> <<>>, kids |-> <<>>]
Bytes(bs)   == [t |-> "bytes", a |-> <<>>, b |-> bs, kids |-> <<>>]
Obj(kids)   == [t |-> "object", a |-> <<>>, b |-> <<>>, kids |-> kids]
KV(k, v)    == [k |-> k, v |-> v]

Digits == <<"0", "1", "2", "3", "4", "5", "6", "7", "8", "9">>
IndexText(i) == <<Digits[i + 1]>>            \* String(i) for one-digit indices
Arr(items)  ==
  [t |-> "array", a |-> <<>>, b |-> <<>>,
   kids |-> [i \in 1..Len(items) |-> KV(IndexText(i - 1), items[i])]]

\* typeof v === "object"
TypeofObject(v) == v.t \in {"null", "bytes", "array", "object"}

\* !!v
Truthy(v) ==
  /\ v.t \notin {"undefined", "null"}
  /\ (v.t = "string" => v.a # <<>>)
  /\ (v.t = "number" => v.a # <<"0">>)
  /\ (v.t = "boolean" => v = True)

\* Object.keys(v) / Object.values(v): a Uint8Array's are its indices and bytes
OwnKeys(v) == {v.kids[i].k : i \in 1..Len(v.kids)}

\* k in v, for an object or array
HasKey(v, k) == k \in OwnKeys(v)

\* v[k]: undefined when k is no own property (also on a string, number or boolean)
Prop(v, k) ==
  IF HasKey(v, k)
  THEN v.kids[CHOOSE i \in 1..Len(v.kids) : v.kids[i].k = k].v
  ELSE Undefined

\* v[k] = x on an object: an existing key keeps its place, a new one is appended
SetProp(v, k, x) ==
  IF HasKey(v, k)
  THEN [v EXCEPT !.kids =
          [i \in 1..Len(v.kids) |->
             IF v.kids[i].k = k THEN KV(k, x) ELSE v.kids[i]]]
  ELSE [v EXCEPT !.kids = Append(v.kids, KV(k, x))]

(***************************************************************************)
(* getAtPath (shared.ts 65-71).  A step into undefined or null is a        *)
(* TypeError; the result is [err, v].                                      *)
(***************************************************************************)
Ok(v)      == [err |-> "none", v |-> v]
Failed(e)  == [err |-> e, v |-> Undefined]

RECURSIVE getAtPath(_, _)
getAtPath(doc, path) ==
  IF Len(path) = 0 THEN Ok(doc)
  ELSE IF doc.t \in {"undefined", "null"} THEN Failed("TypeError")
  ELSE getAtPath(Prop(doc, Head(path)), Tail(path))

\* The else branch of the change callback of writeToLocation (shared.ts
\* 164-168): the walk over dst.path.slice(0, -1) and the assignment under the
\* last key, on the document's mutable root.  A step into undefined or null is
\* a TypeError; the document store refuses a property assignment on anything
\* but a map (a string, number, boolean, list) and refuses the value undefined.
RECURSIVE changeAtPath(_, _, _)
changeAtPath(doc, path, value) ==
  IF doc.t \in {"undefined", "null"} THEN Failed("TypeError")
  ELSE IF Len(path) = 1
       THEN IF doc.t = "object" /\ value.t # "undefined"
            THEN Ok(SetProp(doc, path[1], value))
            ELSE Failed("RangeError")
  ELSE LET inner == changeAtPath(Prop(doc, Head(path)), Tail(path), value)
       IN  IF inner.err # "none" THEN inner
           ELSE Ok(SetProp(doc, Head(path), inner.v))

(***************************************************************************)
(* JSON.stringify(val, replacer, space) and JSON.parse  (shared.ts 101-107, *)
(* 138-140).  An object of the model never holds an undefined property.    *)
(***************************************************************************)
B64Chars ==
  <<"A", "B", "C", "D", "E", "F", "G", "H", "I", "J", "K", "L", "M", "N", "O", "P",
    "Q", "R", "S", "T", "U", "V", "W", "X", "Y", "Z", "a", "b", "c", "d", "e", "f",
    "g", "h", "i", "j", "k", "l", "m", "n", "o", "p", "q", "r", "s", "t", "u", "v",
    "w", "x", "y", "z", "0", "1", "2", "3", "4", "5", "6", "7", "8", "9", "+", "/">>

B64(n) == B64Chars[n + 1]

\* Buffer.from(bytes).toString("base64")
RECURSIVE Base64(_)
Base64(bs) ==
  IF Len(bs) = 0 THEN <<>>
  ELSE IF Len(bs) = 1
       THEN <<B64(bs[1] \div 4), B64((bs[1] % 4) * 16), "=", "=">>
  ELSE IF Len(bs) = 2
       THEN <<B64(bs[1] \div 4), B64((bs[1] % 4) * 16 + bs[2] \div 16),
              B64((bs[2] % 16) * 4), "=">>
  ELSE <<B64(bs[1] \div 4), B64((bs[1] % 4) * 16 + bs[2] \div 16),
         B64((bs[2] % 16) * 4 + bs[3] \div 64), B64(bs[3] % 64)>>
       \o Base64(SubSeq(bs, 4, Len(bs)))

\* replacer: a Uint8Array is serialized as its base64 string
replacer(value) == IF value.t = "bytes" THEN Str(Base64(value.b)) ELSE value

\* a string literal: quotes, with ", \ and the newline escaped
RECURSIVE Escape(_)
Escape(text) ==
  IF Len(text) = 0 THEN <<>>
  ELSE (CASE Head(text) = "\"" -> <<"\\", "\"">>
          [] Head(text) = "\\" -> <<"\\", "\\">>
          [] Head(text) = "\n" -> <<"\\", "n">>
          [] OTHER -> <<Head(text)>>) \o Escape(Tail(text))

Quote(text) == <<"\"">> \o Escape(text) \o <<"\"">>

RECURSIVE Spaces(_)
Spaces(n) == IF n = 0 THEN <<>> ELSE <<" ">> \o Spaces(n - 1)

\* the line break before a member at nesting `level`: nothing without `space`
Break(space, level) ==
  IF space = 0 THEN <<>> ELSE <<"\n">> \o Spaces(space * level)

RECURSIVE Serialize(_, _, _)
RECURSIVE Members(_, _, _, _)
\* the members of an array (isArr) or object, separated by commas
Members(kids, isArr, space, level) ==
  IF Len(kids) = 0 THEN <<>>
  ELSE Break(space, level)
       \o (IF isArr THEN <<>>
           ELSE Quote(Head(kids).k) \o <<":">> \o (IF space = 0 THEN <<>> ELSE <<" ">>))
       \o Serialize(Head(kids).v, space, level)
       \o (IF Len(kids) > 1 THEN <<",">> ELSE <<>>)
       \o Members(Tail(kids), isArr, space, level)

Serialize(value, space, level) ==
  LET v == replacer(value)
  IN  CASE v.t = "string" -> Quote(v.a)
        [] v.t \in {"null", "boolean", "number"} -> v.a
        [] v.t = "undefined" -> v.a
        [] v.t = "array" ->
             IF Len(v.kids) = 0 THEN <<"[", "]">>
             ELSE <<"[">> \o Members(v.kids, TRUE, space, level + 1)
                  \o Break(space, level) \o <<"]">>
        [] v.t = "object" ->
             IF Len(v.kids) = 0 THEN <<"{", "}">>
             ELSE <<"{">> \o Members(v.kids, FALSE, space, level + 1)
                  \o Break(space, level) \o <<"}">>

UndefinedText == <<"u", "n", "d", "e", "f", "i", "n", "e", "d">>

\* the mutant of the line below: only the file form ends with a newline
JSONstringifyLineFileOnly(val, space) ==
  (IF val.t = "undefined" THEN UndefinedText ELSE Serialize(val, space, 0))
  \o (IF space = 0 THEN <<>> ELSE <<"\n">>)

\* JSON.stringify(val, replacer, space) + "\n": stringify yields undefined for
\* undefined, which the concatenation turns into the text "undefined"
JSONstringifyLine(val, space) ==
  (IF val.t = "undefined" THEN UndefinedText ELSE Serialize(val, space, 0))
  \o <<"\n">>

(***************************************************************************)
(* AMFS (shared.ts 174-206): the file-tree classifier and the tree writer. *)
(* The file system maps a path to [kind, data].                            *)
(***************************************************************************)
ContentTypeKey == <<"c", "o", "n", "t", "e", "n", "t", "T", "y", "p", "e">>
ContentsKey    == <<"c", "o", "n", "t", "e", "n", "t", "s">>

isAMFSFile(node) ==
  /\ Truthy(node)
  /\ TypeofObject(node)
  /\ HasKey(node, ContentTypeKey)
  /\ HasKey(node, ContentsKey)
  /\ Prop(node, ContentTypeKey).t = "string"
  /\ Prop(node, ContentsKey).t \in {"string", "bytes"}

\* the mutant of isAMFSDirectory: the entries are not looked at
isAMFSDirectoryShallow(node) ==
  /\ Truthy(node)
  /\ TypeofObject(node)

RECURSIVE isAMFS(_)
\* Object.values(node).every(isAMFS): the values of a Uint8Array are its
\* bytes, numbers, so only the empty one passes
isAMFSDirectory(node) ==
  /\ Truthy(node)
  /\ TypeofObject(node)
  /\ (node.t = "bytes" => Len(node.b) = 0)
  /\ \A i \in 1..Len(node.kids) : isAMFS(node.kids[i].v)

isAMFS(node) == isAMFSFile(node) \/ isAMFSDirectory(node)

FileEntry(data) == [kind |-> "file", data |-> data]
DirEntry        == [kind |-> "dir", data |-> Undefined]

FsOk(fs)        == [err |-> "none", fs |-> fs]
FsFailed(e, fs) == [err |-> e, fs |-> fs]

\* fs.writeFileSync(path, data): a directory at path refuses the write
writeFileSync(fs, path, data) ==
  IF path \in DOMAIN fs /\ fs[path].kind = "dir" THEN FsFailed("EISDIR", fs)
  ELSE FsOk((path :> FileEntry(data)) @@ fs)

\* ensureDirSync(path): a file at path refuses the directory
ensureDirSync(fs, path) ==
  IF path \in DOMAIN fs /\ fs[path].kind = "file" THEN FsFailed("EEXIST", fs)
  ELSE FsOk((path :> DirEntry) @@ fs)

\* `${path}/${name}`
ChildPath(path, name) == path \o <<"/">> \o name

\* the mutant of writeAMFS's file branch: it writes the content type
writeTreeFileContentType(fs, node, path) ==
  writeFileSync(fs, path, Prop(node, ContentTypeKey))

\* the file branch of writeAMFS (shared.ts 175-177)
writeTreeFile(fs, node, path) ==
  writeFileSync(fs, path, Prop(node, ContentsKey))

RECURSIVE writeAMFS(_, _, _)
RECURSIVE writeEntries(_, _, _)
\* Object.entries(directory).forEach(...): in order, stopping where one throws
writeEntries(fs, kids, path) ==
  IF Len(kids) = 0 THEN FsOk(fs)
  ELSE LET r == writeAMFS(fs, Head(kids).v, ChildPath(path, Head(kids).k))
       IN  IF r.err # "none" THEN r ELSE writeEntries(r.fs, Tail(kids), path)

writeAMFS(fs, directoryOrFile, path) ==
  IF isAMFSFile(directoryOrFile)
  THEN writeTreeFile(fs, directoryOrFile, path)
  ELSE LET r == ensureDirSync(fs, path)
       IN  IF r.err # "none" THEN r
           ELSE writeEntries(r.fs, directoryOrFile.kids, path)

(***************************************************************************)
(* ERRORS (shared.ts 213).  AMTError is the one recoverable class; every   *)
(* other failure (TypeError, SyntaxError, an I/O error) is class "Error".  *)
(***************************************************************************)
NoError         == [class |-> "none", msg |-> ""]
AMTError(m)     == [class |-> "AMTError", msg |-> m]
RuntimeError(m) == [class |-> "Error", msg |-> m]

\* the messages of the AMTErrors the source throws
MsgRawAndFs       == "source can either be read as raw or as an automerge file system"
MsgRawToAutomerge == "raw copy from automerge to automerge"
MsgFsFileSource   == "value type fs is not implemented yet for file source"
MsgFsPipeSource   == "value type fs is not supported on pipe"
MsgFsDestination  == "value type fs can be only written to file system"
MsgNotAMFS        == "value must be an automerge file object"
MsgRawValue       == "value must be a string or bytes"
MsgRootObject     == "only an object can be written to a document root"
MsgNotFound       == "document not found"

(***************************************************************************)
(* writeToLocation (shared.ts 109-172), in two parts: the code up to the   *)
(* first suspension (`await handle.doc()`, reached only for a document     *)
(* destination), and the handle.change callback that follows it.           *)
(***************************************************************************)
ValueTypes == {"fs", "raw", "json"}

WriteOp(path, data) == [path |-> path, data |-> data]

\* the outcome of the synchronous part
Outcome(err, fs, out, pend, data, suspended) ==
  [thrown |-> err, fsys |-> fs, stdout |-> out, pending |-> pend,
   data |-> data, suspended |-> suspended]

Threw(err) == Outcome(err, fsys, stdout, pending, Undefined, FALSE)

\* the mutant of writeText: the new write goes before the earlier ones
writeTextFront(dst, stringVal) ==
  IF dst.type = "pipe"
  THEN Outcome(NoError, fsys, <<stringVal>> \o stdout, pending, stringVal, FALSE)
  ELSE Outcome(NoError, fsys, stdout, <<WriteOp(dst.path, stringVal)>> \o pending,
               stringVal, FALSE)

\* lines 126-147: stringVal goes to process.stdout.write, or to an
\* fsP.writeFile that is started and not awaited
writeText(dst, stringVal) ==
  IF dst.type = "pipe"
  THEN Outcome(NoError, fsys, Append(stdout, stringVal), pending, stringVal, FALSE)
  ELSE Outcome(NoError, fsys, stdout, Append(pending, WriteOp(dst.path, stringVal)),
               stringVal, FALSE)

\* lines 114-125
fsBranch(dst, val) ==
  IF dst.type # "file"
  THEN Threw(AMTError(MsgFsDestination))
  ELSE IF ~isAMFS(val)
  THEN Threw(AMTError(MsgNotAMFS))
  ELSE LET r == writeAMFS(fsys, val, dst.path)
       IN  Outcome(IF r.err = "none" THEN NoError ELSE RuntimeError(r.err),
                   r.fs, stdout, pending, Undefined, FALSE)

writeToLocationSync(dst, val, type) ==
  IF type = "fs" THEN fsBranch(dst, val)
  ELSE IF dst.type \in {"file", "pipe"}
  THEN IF type = "raw"
       THEN IF val.t \notin {"string", "bytes"}
            THEN Threw(AMTError(MsgRawValue))
            ELSE writeText(dst, val)
       ELSE writeText(dst, Str(JSONstringifyLine(val, IF dst.type = "pipe" THEN 0 ELSE 2)))
  ELSE Outcome(NoError, fsys, stdout, pending, Undefined, TRUE)

\* String(n) for a byte
RECURSIVE DecText(_)
DecText(n) ==
  IF n < Len(Digits) THEN <<Digits[n + 1]>>
  ELSE DecText(n \div Len(Digits)) \o <<Digits[(n % Len(Digits)) + 1]>>

\* the enumerable own properties `for (const key in val)` visits
Entries(val) ==
  IF val.t = "bytes"
  THEN [i \in 1..Len(val.b) |-> KV(IndexText(i - 1), Num(DecText(val.b[i])))]
  ELSE val.kids

\* the mutant of the root merge: the root is replaced by the value's entries
assignAllReplacing(doc, kids) == [doc EXCEPT !.kids = kids]

\* lines 160-162: doc[key] = val[key] for every key of val
RECURSIVE assignAll(_, _)
assignAll(doc, kids) ==
  IF Len(kids) = 0 THEN doc
  ELSE assignAll(SetProp(doc, Head(kids).k, Head(kids).v), Tail(kids))

\* lines 152-170, the callback of handle.change on the document root `doc`:
\* [thrown, doc].  A callback that throws leaves the document as it was.
changeCallback(dst, val, doc) ==
  IF Len(dst.path) = 0
  THEN IF ~(TypeofObject(val) /\ val.t # "null")
       THEN [thrown |-> AMTError(MsgRootObject),
             doc |-> doc]
       ELSE [thrown |-> NoError, doc |-> assignAll(doc, Entries(val))]
  ELSE LET r == changeAtPath(doc, dst.path, val)
       IN  IF r.err = "none" THEN [thrown |-> NoError, doc |-> r.v]
           ELSE [thrown |-> RuntimeError(r.err), doc |-> doc]

\* lines 149-152 and the callback: the handle of a document that does not
\* exist is not ready, and handle.change refuses it
writeToDocument(dst, val) ==
  IF docs[dst.docUrl].t = "undefined"
  THEN [thrown |-> RuntimeError("DocHandle is not ready"), doc |-> docs[dst.docUrl]]
  ELSE changeCallback(dst, val, docs[dst.docUrl])

\* the record kept of a finished call
Call(n, dst, val, type, input, err, data) ==
  [n |-> n, dst |-> dst, val |-> val, type |-> type, input |-> input,
   thrown |-> err, data |-> data]

NoCall == Call(0, [type |-> "none"], Undefined, "none", <<>>, NoError, Undefined)

(***************************************************************************)
(* The command line (part_000 57-67) and the values of the bounded world.  *)
(***************************************************************************)
Src  == parseLocation(args.src)
Dst  == parseLocation(args.dst)
Type == IF args.raw THEN "raw" ELSE IF args.fs THEN "fs" ELSE "json"

Args(s, d, w, r, f) == [src |-> s, dst |-> d, watch |-> w, raw |-> r, fs |-> f]

\* the flag pairs that select a mode: --raw and --file together are refused
ModeFlags == {<<FALSE, FALSE>>, <<TRUE, FALSE>>, <<FALSE, TRUE>>}

SrcDocUrl == Scheme \o <<"1">>
DstDocUrl == Scheme \o <<"2">>
DocUrls   == {SrcDocUrl, DstDocUrl}

SrcFile == <<"f">>
DstFile == <<"g">>

Ka == <<"a">>
Kb == <<"b">>
Kd == <<"d">>
Kn == <<"n">>
Ks == <<"s">>
Kx == <<"x">>
Ky == <<"y">>
Kz == <<"z">>

TreeFileOf(ct, contents) == Obj(<<KV(ContentTypeKey, Str(ct)), KV(ContentsKey, contents)>>)

FileX1    == TreeFileOf(<<"x">>, Str(<<"1">>))
FileY2    == TreeFileOf(<<"y">>, Str(<<"2">>))
FileHi    == TreeFileOf(<<"t">>, Str(<<"h", "i">>))
FileBytes == TreeFileOf(<<"b">>, Bytes(<<104, 105>>))
FileExtra == Obj(<<KV(ContentTypeKey, Str(<<"x">>)), KV(ContentsKey, Str(<<"1">>)),
                   KV(Ka, Num(<<"5">>))>>)
DirEmpty  == Obj(<<>>)
DirAB     == Obj(<<KV(Ka, FileX1), KV(Kb, FileY2)>>)
DirNested == Obj(<<KV(Kd, Obj(<<KV(Ka, FileX1)>>)), KV(Kb, FileBytes)>>)
DirNamed  == Obj(<<KV(ContentTypeKey, DirEmpty), KV(ContentsKey, DirEmpty)>>)
ObjNS     == Obj(<<KV(Kn, Num(<<"5">>)), KV(Ks, Str(<<"x">>))>>)
ObjXY     == Obj(<<KV(Kx, Num(<<"1">>)), KV(Ky, Num(<<"2">>))>>)

\* values that are no file tree
BadTypeNum  == Obj(<<KV(ContentTypeKey, Num(<<"5">>)), KV(ContentsKey, Str(<<"1">>))>>)
BadContents == Obj(<<KV(ContentTypeKey, Str(<<"x">>)), KV(ContentsKey, DirEmpty)>>)
DirBadEntry == Obj(<<KV(Ka, FileX1), KV(Kb, Num(<<"5">>))>>)
DirDeepBad  == Obj(<<KV(Kd, Obj(<<KV(Ka, Str(<<"x">>))>>))>>)

Scalars ==
  {Undefined, Null, True, Num(<<"5">>), Str(<<"x">>), Str(<<>>),
   Str(<<"h", "\"", "\n">>), Bytes(<<104, 105>>), Bytes(<<>>)}

Values ==
  Scalars \cup
  {FileX1, FileHi, FileBytes, FileExtra, DirEmpty, DirAB, DirNested, DirNamed,
   ObjNS, ObjXY, BadTypeNum, BadContents, DirBadEntry, DirDeepBad,
   Obj(<<KV(Ka, ObjNS), KV(Kz, Bytes(<<255>>))>>),
   Arr(<<>>), Arr(<<Num(<<"5">>), Str(<<"x">>)>>), Arr(<<FileX1>>)}

\* the destination document before the copy: absent, or one of these roots
DstRoots ==
  {Obj(<<KV(Kz, Num(<<"9">>)), KV(Ka, Obj(<<KV(Kb, Num(<<"0">>))>>))>>),
   Obj(<<KV(Kx, Num(<<"0">>))>>)}

\* the destination path before the copy: nothing, a stale file, a directory
DstFileStates ==
  {<<>>, DstFile :> FileEntry(Str(<<"o", "l", "d">>)), DstFile :> DirEntry}

(***************************************************************************)
(* Steps shared by every specification.                                    *)
(***************************************************************************)
Terminal == {"exited", "failed", "crashed"}

\* the effects of the synchronous part of a call that did not suspend
ApplySync(o, val, input) ==
  /\ fsys' = o.fsys
  /\ stdout' = o.stdout
  /\ pending' = o.pending
  /\ docs' = docs
  /\ last' = Call(last.n + 1, Dst, val, Type, input, o.thrown, o.data)

\* the effects of handle.change after the suspension
ApplyChange(c, val, input) ==
  /\ docs' = [docs EXCEPT ![Dst.docUrl] = c.doc]
  /\ last' = Call(last.n + 1, Dst, val, Type, input, c.thrown, Undefined)
  /\ UNCHANGED <<fsys, stdout, pending>>

RemoveAt(seq, i) == SubSeq(seq, 1, i - 1) \o SubSeq(seq, i + 1, Len(seq))

\* an fsP.writeFile started earlier completes (shared.ts 146): writes that
\* overlap complete in any order; one that is rejected is an unhandled
\* rejection, which ends the process
WriteFileDone ==
  /\ pc \notin Terminal
  /\ \E i \in 1..Len(pending) :
       LET r == writeFileSync(fsys, pending[i].path, pending[i].data)
       IN  /\ pending' = RemoveAt(pending, i)
           /\ fsys' = r.fs
           /\ IF r.err = "none"
              THEN UNCHANGED <<pc, thrown>>
              ELSE pc' = "crashed" /\ thrown' = RuntimeError(r.err)
  /\ UNCHANGED <<stdout, docs, last, args, exitCode, handlers, stderr, stdin,
                 events, nevents, io, locVars, pathVars>>

(***************************************************************************)
(* SpecWrite: writeToLocation called on its own, several times in a row,   *)
(* with one destination and mode and values drawn from Values.             *)
(***************************************************************************)
MaxWrites == 2

WriteDsts ==
  {Dash, DstFile, DstDocUrl, DstDocUrl \o <<"/">> \o Ka,
   DstDocUrl \o <<"/">> \o Ka \o <<"/">> \o Kb}

PathIdle ==
  /\ ppc = "idle"
  /\ pathRoot = Undefined
  /\ pathKeys = <<>>
  /\ pathValue = Undefined
  /\ pathSet = Ok(Undefined)
  /\ pathGot = Ok(Undefined)

LocIdle ==
  /\ lpc = "idle"
  /\ addr = <<>>
  /\ loc = NoLoc
  /\ str = <<>>
  /\ loc2 = NoLoc

WriteInit ==
  /\ LocIdle
  /\ PathIdle
  /\ \E d \in WriteDsts, m \in ModeFlags :
       args = Args(Dash, d, FALSE, m[1], m[2])
  /\ fsys \in (IF Dst.type = "file" THEN DstFileStates ELSE {<<>>})
  /\ docs \in (IF Dst.type = "automerge"
               THEN {[u \in DocUrls |-> IF u = DstDocUrl THEN r ELSE Undefined] :
                       r \in DstRoots \cup {Undefined}}
               ELSE {[u \in DocUrls |-> Undefined]})
  /\ stdout = <<>>
  /\ pending = <<>>
  /\ last = NoCall
  /\ pc = "writing"
  /\ thrown = NoError
  /\ exitCode = "none"
  /\ handlers = <<>>
  /\ stderr = <<>>
  /\ stdin = <<>>
  /\ events = <<>>
  /\ nevents = 0
  /\ io = {}

\* one whole call of writeToLocation(dst, val, type), awaited by its caller
WriteCall ==
  /\ pc = "writing"
  /\ last.n < MaxWrites
  /\ \E val \in Values :
       LET o == writeToLocationSync(Dst, val, Type)
       IN  IF o.suspended
           THEN ApplyChange(writeToDocument(Dst, val), val, <<>>)
           ELSE ApplySync(o, val, <<>>)
  /\ UNCHANGED <<procVars, locVars, pathVars>>

WriteNext == WriteCall \/ WriteFileDone

SpecWrite == WriteInit /\ [][WriteNext]_vars

(***************************************************************************)
(* SpecLoc: addresses drawn from a bounded set, parsed, stringified and    *)
(* parsed again.                                                           *)
(***************************************************************************)
MaxAddrLen == 3

AddrChars == {"-", "/", "a", ":"}

RECURSIVE TextsUpTo(_, _)
TextsUpTo(chars, n) ==
  IF n = 0 THEN {<<>>}
  ELSE LET shorter == TextsUpTo(chars, n - 1)
       IN  shorter \cup {Append(t, c) : t \in shorter, c \in chars}

\* plain texts, texts behind the document scheme, and texts behind the
\* scheme name without its colon (which are file paths)
Addresses ==
  LET tails == TextsUpTo(AddrChars, MaxAddrLen)
  IN  tails \cup {Scheme \o t : t \in tails}
            \cup {SubSeq(Scheme, 1, Len(Scheme) - 1) \o t : t \in tails}

WorldIdle ==
  /\ fsys = <<>>
  /\ stdout = <<>>
  /\ pending = <<>>
  /\ docs = [u \in DocUrls |-> Undefined]
  /\ last = NoCall

ProcIdle ==
  /\ args = Args(Dash, Dash, FALSE, FALSE, FALSE)
  /\ pc = "idle"
  /\ thrown = NoError
  /\ exitCode = "none"
  /\ handlers = <<>>
  /\ stderr = <<>>
  /\ stdin = <<>>
  /\ events = <<>>
  /\ nevents = 0
  /\ io = {}

LocInit ==
  /\ lpc = "input"
  /\ addr \in Addresses
  /\ loc = NoLoc
  /\ str = <<>>
  /\ loc2 = NoLoc
  /\ PathIdle
  /\ WorldIdle
  /\ ProcIdle

LocParse ==
  /\ lpc = "input"
  /\ loc' = parseLocation(addr)
  /\ lpc' = "parsed"
  /\ UNCHANGED <<addr, str, loc2, pathVars, worldVars, procVars>>

LocStringify ==
  /\ lpc = "parsed"
  /\ str' = stringifyLocation(loc)
  /\ lpc' = "stringified"
  /\ UNCHANGED <<addr, loc, loc2, pathVars, worldVars, procVars>>

LocReparse ==
  /\ lpc = "stringified"
  /\ loc2' = parseLocation(str)
  /\ lpc' = "reparsed"
  /\ UNCHANGED <<addr, loc, str, pathVars, worldVars, procVars>>

LocNext == LocParse \/ LocStringify \/ LocReparse

SpecLoc == LocInit /\ [][LocNext]_vars

(***************************************************************************)
(* SpecPath: setAtPath (shared.ts 73-79) applied to a value, a path and a  *)
(* value to assign drawn from bounded sets, and getAtPath applied to what  *)
(* it leaves.  The values of the model are trees: no object is reachable   *)
(* under two paths.                                                        *)
(***************************************************************************)
MaxPathLen == 3

\* doclet[key] = value in a module (strict code): undefined and null have no
\* properties, and a string, number or boolean refuses a new one
assignProp(doclet, key, value) ==
  IF TypeofObject(doclet) /\ doclet.t # "null"
  THEN Ok(SetProp(doclet, key, value))
  ELSE Failed("TypeError")

\* the mutant of setAtPath: the walk is skipped and the last key is assigned
\* on doc itself
setAtPathNoWalk(doc, path, value) ==
  assignProp(doc, IF Len(path) = 0 THEN UndefinedText ELSE path[Len(path)], value)

\* setAtPath(doc, path, value): [err, v], v being doc after the assignment.
\* With an empty path, path[path.length - 1] is undefined and the key is
\* "undefined".
RECURSIVE setAtPath(_, _, _)
setAtPath(doc, path, value) ==
  IF Len(path) <= 1
  THEN assignProp(doc, IF Len(path) = 0 THEN UndefinedText ELSE path[1], value)
  ELSE IF doc.t \in {"undefined", "null"} THEN Failed("TypeError")
  ELSE LET inner == setAtPath(Prop(doc, Head(path)), Tail(path), value)
       IN  IF inner.err # "none" THEN inner
           ELSE Ok(SetProp(doc, Head(path), inner.v))

\* the sequences over S no longer than n
RECURSIVE SeqsUpTo(_, _)
SeqsUpTo(S, n) ==
  IF n = 0 THEN {<<>>}
  ELSE LET shorter == SeqsUpTo(S, n - 1)
       IN  shorter \cup {Append(q, x) : q \in shorter, x \in S}

PathKeyNames == {Ka, Kb, Kz}

Paths == SeqsUpTo(PathKeyNames, MaxPathLen)

\* the values setAtPath is applied to: nested objects, with a string, a
\* null and a list among their properties
PathRoots ==
  {Obj(<<KV(Ka, Obj(<<KV(Kb, Obj(<<KV(Kz, Num(<<"1">>))>>))>>)), KV(Kz, Num(<<"9">>))>>),
   Obj(<<KV(Ka, Obj(<<KV(Kb, Str(<<"x">>))>>)), KV(Kb, Obj(<<KV(Ka, Num(<<"5">>))>>))>>),
   Obj(<<KV(Ka, Null), KV(Kb, Obj(<<KV(Kz, Arr(<<Num(<<"5">>)>>))>>))>>),
   Obj(<<>>),
   Num(<<"5">>)}

PathValues == {Num(<<"1">>), Str(<<"x">>), Undefined, Obj(<<KV(Ka, Num(<<"1">>))>>)}

PathInit ==
  /\ ppc = "input"
  /\ pathRoot \in PathRoots
  /\ pathKeys \in Paths
  /\ pathValue \in PathValues
  /\ pathSet = Ok(Undefined)
  /\ pathGot = Ok(Undefined)
  /\ LocIdle
  /\ WorldIdle
  /\ ProcIdle

PathSet ==
  /\ ppc = "input"
  /\ pathSet' = setAtPath(pathRoot, pathKeys, pathValue)
  /\ ppc' = "set"
  /\ UNCHANGED <<pathRoot, pathKeys, pathValue, pathGot, locVars, worldVars, procVars>>

\* getAtPath on what setAtPath left (on doc as it was, when setAtPath threw)
PathGet ==
  /\ ppc = "set"
  /\ pathGot' = getAtPath(IF pathSet.err = "none" THEN pathSet.v ELSE pathRoot, pathKeys)
  /\ ppc' = "got"
  /\ UNCHANGED <<pathRoot, pathKeys, pathValue, pathSet, locVars, worldVars, procVars>>

PathNext == PathSet \/ PathGet

SpecPath == PathInit /\ [][PathNext]_vars

(***************************************************************************)
(* Spec: the cp command (part_000).  One action per stretch of code that   *)
(* runs without suspending: the command handler, the head of each          *)
(* cpFrom..., each listener, and each continuation after an await.         *)
(***************************************************************************)
MaxEvents == 3

SrcAddrs ==
  {Dash, SrcFile, SrcDocUrl, SrcDocUrl \o <<"/">> \o Ka,
   SrcDocUrl \o <<"/">> \o Ka \o <<"/">> \o Kb}

DstAddrs == {Dash, DstFile, DstDocUrl, DstDocUrl \o <<"/">> \o Ka}

\* the source document: absent, or one of these roots
SrcRoots ==
  {Obj(<<KV(Ka, Obj(<<KV(Kb, Str(<<"x">>))>>))>>),
   Obj(<<KV(Ka, FileX1)>>),
   DirEmpty}

\* the JSON values JSON.parse can yield here
RECURSIVE IsJSON(_)
IsJSON(v) ==
  /\ v.t \notin {"undefined", "bytes"}
  /\ \A i \in 1..Len(v.kids) : IsJSON(v.kids[i].v)

JSONValues == {v \in Values : IsJSON(v)}

\* JSON.parse(text): the value whose serialization the text is, blanks and
\* line breaks between tokens aside; a SyntaxError when there is none
JSONparse(text) ==
  LET tokens == StripWs(text)
      hits   == {v \in JSONValues : Serialize(v, 0, 0) = tokens}
  IN  IF hits = {} THEN Failed("SyntaxError") ELSE Ok(CHOOSE v \in hits : TRUE)

\* the text of a source file, and of an input line
SrcTexts ==
  {Serialize(ObjXY, 0, 0) \o <<"\n">>, Quote(<<"x">>), <<"{">>}

LineTexts == {Serialize(ObjXY, 0, 0), <<"5">>, <<"{">>}

\* the whole input stream: every line with its line break
RECURSIVE StreamText(_)
StreamText(lines) ==
  IF Len(lines) = 0 THEN <<>>
  ELSE Head(lines) \o <<"\n">> \o StreamText(Tail(lines))

LineOfStdin == <<"l", "i", "n", "e", " ", "o", "f", " ", "s", "t", "d", "i", "n">>
Stdin       == <<"s", "t", "d", "i", "n">>

LogLine(kind, what, to, msg) == [kind |-> kind, src |-> what, dst |-> to, msg |-> msg]
Wrote(what)    == LogLine("wrote", what, stringifyLocation(Dst), "")
ErrorLine(err) == LogLine("error", <<>>, <<>>, err.msg)

\* who awaits a copy: [oneShot, confirm, what].  A one-shot copy is awaited
\* up to the command handler; a watch-mode copy runs inside catchAMTErrors.
\* confirm: the caller logs "wrote <what> to <dst>" after the write.
Ctx(oneShot, confirm, what) == [oneShot |-> oneShot, confirm |-> confirm, what |-> what]

Suspended(at, val, input, ctx) == [at |-> at, val |-> val, input |-> input, ctx |-> ctx]

\* the mutant of catchAMTErrors: the fatal flag is ignored
catchAMTErrorsAlwaysFatal(err, fatal) ==
  IF err = NoError THEN "returned"
  ELSE IF err.class = "AMTError" THEN "exit"
  ELSE "rethrown"

\* catchAMTErrors(f, fatal) (shared.ts 215-228): what becomes of the error f
\* ended with
catchAMTErrors(err, fatal) ==
  IF err = NoError THEN "returned"
  ELSE IF err.class = "AMTError" THEN (IF fatal THEN "exit" ELSE "logged")
  ELSE "rethrown"

\* the confirmation after the write (part_000 96-100, 140-144, 172-178)
Confirmed(ctx) ==
  IF ctx.confirm /\ Dst.type # "pipe" THEN Append(stderr, Wrote(ctx.what)) ELSE stderr

\* A copy ends with `err` (NoError: it returned).  One-shot, the error leaves
\* the command handler; in watch mode catchAMTErrors(..., false) logs an
\* AMTError and rethrows anything else into a promise nobody awaits, which
\* ends the process.
Finish(err, ctx) ==
  IF ctx.oneShot
  THEN /\ exitCode' = exitCode
       /\ IF err = NoError
          THEN pc' = "wait" /\ thrown' = thrown /\ stderr' = Confirmed(ctx)
          ELSE pc' = "failed" /\ thrown' = err /\ stderr' = stderr
  ELSE LET d == catchAMTErrors(err, FALSE)
       IN  /\ stderr' = (CASE d = "returned" -> Confirmed(ctx)
                           [] d \in {"logged", "exit"} -> Append(stderr, ErrorLine(err))
                           [] OTHER -> stderr)
           /\ pc' = (CASE d = "exit" -> "exited"
                       [] d = "rethrown" -> "crashed"
                       [] OTHER -> pc)
           /\ thrown' = (IF d \in {"exit", "rethrown"} THEN err ELSE thrown)
           /\ exitCode' = (IF d = "exit" THEN "1" ELSE exitCode)

\* the I/O the synchronous part of a write performed
WriteIo(o) ==
  (IF o.stdout # stdout THEN {"write stream"} ELSE {})
  \cup (IF o.pending # pending \/ o.fsys # fsys THEN {"write file system"} ELSE {})

\* writeToLocation(dst, value, type) is called, and the caller runs on to its
\* next suspension or to its end.  rest: the other suspended copies.
Deliver(val, input, ctx, rest, reads) ==
  LET o == writeToLocationSync(Dst, val, Type)
  IN  IF o.suspended
      THEN /\ handlers' = Append(rest, Suspended("dstDoc", val, input, ctx))
           /\ io' = io \cup reads \cup {"open destination document"}
           /\ pc' = (IF ctx.oneShot THEN "oneShot" ELSE pc)
           /\ UNCHANGED <<worldVars, thrown, exitCode, stderr>>
      ELSE /\ ApplySync(o, val, input)
           /\ handlers' = rest
           /\ io' = io \cup reads \cup WriteIo(o)
           /\ Finish(o.thrown, ctx)

\* the copy throws before it has a value to write
Abort(err, ctx, rest, reads) ==
  /\ handlers' = rest
  /\ io' = io \cup reads
  /\ Finish(err, ctx)
  /\ UNCHANGED worldVars

\* the command handler throws
Throw(err) ==
  /\ pc' = "failed"
  /\ thrown' = err

CopyInit ==
  /\ LocIdle
  /\ PathIdle
  /\ \E s \in SrcAddrs, d \in DstAddrs, w, r, f \in BOOLEAN :
       args = Args(s, d, w, r, f)
  /\ \E sr \in (IF Src.type = "automerge" THEN SrcRoots \cup {Undefined} ELSE {Undefined}),
        dr \in (IF Dst.type = "automerge" THEN DstRoots \cup {Undefined} ELSE {Undefined}) :
       docs = [u \in DocUrls |-> IF u = SrcDocUrl THEN sr ELSE dr]
  /\ \E sf \in (IF Src.type = "file"
                THEN {SrcFile :> FileEntry(Str(t)) : t \in SrcTexts} \cup {<<>>}
                ELSE {<<>>}) :
       fsys = sf
  /\ stdin \in (IF Src.type = "pipe" THEN SeqsUpTo(LineTexts, MaxEvents) ELSE {<<>>})
  /\ stdout = <<>>
  /\ pending = <<>>
  /\ last = NoCall
  /\ pc = "start"
  /\ thrown = NoError
  /\ exitCode = "none"
  /\ handlers = <<>>
  /\ stderr = <<>>
  /\ events = <<>>
  /\ nevents = 0
  /\ io = {}

\* part_000 57-78
Handler ==
  /\ pc = "start"
  /\ IF args.raw /\ args.fs
     THEN Throw(AMTError(MsgRawAndFs))
     ELSE /\ pc' = (CASE Src.type = "automerge" -> "cpFromAutomerge"
                      [] Src.type = "file" -> "cpFromFile"
                      [] Src.type = "pipe" -> "cpFromPipe")
          /\ thrown' = thrown
  /\ UNCHANGED <<worldVars, locVars, pathVars, args, exitCode, handlers, stderr, stdin,
                 events, nevents, io>>

\* the mutant of the guard below: the raw document-to-document copy goes on
RawToAutomergeAllowed(dst, type) == FALSE

\* part_000 87: type === "raw" && dst.type === "automerge"
RawToAutomerge(dst, type) == type = "raw" /\ dst.type = "automerge"

\* part_000 81-113, to the listener's registration or the await of the
\* source document
CpFromAutomerge ==
  /\ pc = "cpFromAutomerge"
  /\ IF RawToAutomerge(Dst, Type)
     THEN /\ Throw(AMTError(MsgRawToAutomerge))
          /\ io' = io
     ELSE /\ pc' = (IF args.watch THEN "watching" ELSE "awaitSrcDoc")
          /\ thrown' = thrown
          /\ io' = io \cup {"open source document"}
  /\ UNCHANGED <<worldVars, locVars, pathVars, args, exitCode, handlers, stderr, stdin,
                 events, nevents>>

\* onDoc (part_000 93-101) up to its first suspension
onDoc(doc, ctx, reads) ==
  LET g == getAtPath(doc, Src.path)
  IN  IF g.err # "none"
      THEN Abort(RuntimeError(g.err), ctx, handlers, reads)
      ELSE Deliver(g.v, <<>>, ctx, handlers, reads)

\* part_000 113-118: handle.doc() resolves
SrcDocReady ==
  /\ pc = "awaitSrcDoc"
  /\ LET doc == docs[Src.docUrl]
         ctx == Ctx(TRUE, TRUE, stringifyLocation(Src))
     IN  IF doc.t = "undefined"
         THEN /\ Throw(AMTError(MsgNotFound))
              /\ io' = io \cup {"read source document"}
              /\ UNCHANGED <<worldVars, exitCode, handlers, stderr>>
         ELSE onDoc(doc, ctx, {"read source document"})
  /\ UNCHANGED <<locVars, pathVars, args, stdin, events, nevents>>

\* the source changes under a watcher: another peer edits the document, or
\* the file is written (or first seen) or removed; the change is notified
SrcEdited ==
  /\ pc = "watching"
  /\ Src.type \in {"automerge", "file"}
  /\ nevents < MaxEvents
  /\ nevents' = nevents + 1
  /\ IF Src.type = "automerge"
     THEN \E r \in SrcRoots :
            /\ docs' = [docs EXCEPT ![Src.docUrl] = r]
            /\ events' = Append(events, r)
            /\ fsys' = fsys
     ELSE \E f \in {SrcFile :> FileEntry(Str(t)) : t \in SrcTexts} \cup {<<>>} :
            /\ fsys' = [p \in (DOMAIN fsys \ {SrcFile}) \cup DOMAIN f |->
                          IF p = SrcFile THEN f[p] ELSE fsys[p]]
            /\ events' = Append(events, Undefined)
            /\ docs' = docs
  /\ UNCHANGED <<stdout, pending, last, locVars, pathVars, args, pc, thrown, exitCode,
                 handlers, stderr, stdin, io>>

\* part_000 107-111: the "change" listener
OnDocChange ==
  /\ pc = "watching"
  /\ Src.type = "automerge"
  /\ events # <<>>
  /\ events' = Tail(events)
  /\ onDoc(Head(events), Ctx(FALSE, TRUE, stringifyLocation(Src)),
           {"read source document"})
  /\ UNCHANGED <<locVars, pathVars, args, stdin, nevents>>

\* part_000 124-157, to the watcher's registration or onFile's readFile
CpFromFile ==
  /\ pc = "cpFromFile"
  /\ IF Type = "fs"
     THEN /\ Throw(AMTError(MsgFsFileSource))
          /\ UNCHANGED <<handlers, io>>
     ELSE IF args.watch
     THEN /\ pc' = "watching"
          /\ UNCHANGED <<thrown, handlers, io>>
     ELSE /\ pc' = "oneShot"
          /\ handlers' = <<Suspended("readFile", Undefined, <<>>,
                                     Ctx(TRUE, TRUE, stringifyLocation(Src)))>>
          /\ io' = io \cup {"read source file"}
          /\ thrown' = thrown
  /\ UNCHANGED <<worldVars, locVars, pathVars, args, exitCode, stderr, stdin,
                 events, nevents>>

\* part_000 148-152 and 136-137: the "all" listener starts onFile
OnFileEvent ==
  /\ pc = "watching"
  /\ Src.type = "file"
  /\ events # <<>>
  /\ events' = Tail(events)
  /\ handlers' = Append(handlers, Suspended("readFile", Undefined, <<>>,
                                            Ctx(FALSE, TRUE, stringifyLocation(Src))))
  /\ io' = io \cup {"read source file"}
  /\ UNCHANGED <<worldVars, locVars, pathVars, args, pc, thrown, exitCode, stderr,
                 stdin, nevents>>

\* part_000 137-145: fsP.readFile resolves (or rejects) and onFile goes on
ReadFileDone ==
  /\ pc \notin Terminal
  /\ \E i \in 1..Len(handlers) :
       /\ handlers[i].at = "readFile"
       /\ LET ctx  == handlers[i].ctx
              rest == RemoveAt(handlers, i)
          IN  IF Src.path \notin DOMAIN fsys
              THEN Abort(RuntimeError("ENOENT"), ctx, rest, {})
              ELSE LET contents == fsys[Src.path].data.a
                       value == IF Type = "raw" THEN Ok(Str(contents))
                                ELSE JSONparse(contents)
                   IN  IF value.err # "none"
                       THEN Abort(RuntimeError(value.err), ctx, rest, {})
                       ELSE Deliver(value.v, contents, ctx, rest, {})
  /\ UNCHANGED <<locVars, pathVars, args, stdin, events, nevents>>

\* part_000 160-192, to the listeners' registration or the read of stdin
CpFromPipe ==
  /\ pc = "cpFromPipe"
  /\ IF Type = "fs"
     THEN Throw(AMTError(MsgFsPipeSource))
     ELSE /\ pc' = (IF args.watch THEN "watching" ELSE "readStdin")
          /\ thrown' = thrown
  /\ UNCHANGED <<worldVars, locVars, pathVars, args, exitCode, handlers, stderr, stdin,
                 events, nevents, io>>

\* onPipeData (part_000 169-179) up to its first suspension
onPipeData(contents, ctx, reads) ==
  LET value == IF Type = "raw" THEN Ok(Str(contents)) ELSE JSONparse(contents)
  IN  IF value.err # "none"
      THEN Abort(RuntimeError(value.err), ctx, handlers, reads)
      ELSE Deliver(value.v, contents, ctx, handlers, reads)

\* part_000 183-187: the "line" listener
OnLine ==
  /\ pc = "watching"
  /\ Src.type = "pipe"
  /\ stdin # <<>>
  /\ stdin' = Tail(stdin)
  /\ nevents' = nevents + 1
  /\ onPipeData(Head(stdin), Ctx(FALSE, TRUE, LineOfStdin), {"read stream"})
  /\ UNCHANGED <<locVars, pathVars, args, events>>

\* part_000 188-189: the "close" listener starts its wait
OnClose ==
  /\ pc = "watching"
  /\ Src.type = "pipe"
  /\ stdin = <<>>
  /\ pc' = "wait"
  /\ UNCHANGED <<worldVars, locVars, pathVars, args, thrown, exitCode, handlers, stderr,
                 stdin, events, nevents, io>>

\* part_000 193-198: stdin is read to its end and handed to writeToLocation
ReadStdinEnd ==
  /\ pc = "readStdin"
  /\ stdin' = <<>>
  /\ LET data == StreamText(stdin)
     IN  Deliver(Str(data), data, Ctx(TRUE, FALSE, Stdin), handlers, {"read stream"})
  /\ UNCHANGED <<locVars, pathVars, args, events, nevents>>

\* shared.ts 151-170 and the caller's lines after the await: handle.doc()
\* of the destination resolves, handle.change runs, the caller goes on.
\* Copies suspended here resume in the order the document store wakes them.
DstDocReady ==
  /\ pc \notin Terminal
  /\ \E i \in 1..Len(handlers) :
       /\ handlers[i].at = "dstDoc"
       /\ LET h == handlers[i]
          IN  /\ ApplyChange(writeToDocument(Dst, h.val), h.val, h.input)
              /\ handlers' = RemoveAt(handlers, i)
              /\ io' = io \cup {"change destination document"}
              /\ Finish(writeToDocument(Dst, h.val).thrown, h.ctx)
  /\ UNCHANGED <<locVars, pathVars, args, stdin, events, nevents>>

\* part_000 119-120, 155-156, 189-190, 199-200: wait(500) is over
Exit ==
  /\ pc = "wait"
  /\ pc' = "exited"
  /\ exitCode' = "0"
  /\ UNCHANGED <<worldVars, locVars, pathVars, args, thrown, handlers, stderr, stdin,
                 events, nevents, io>>

Next ==
  \/ Handler
  \/ CpFromAutomerge
  \/ SrcDocReady
  \/ SrcEdited
  \/ OnDocChange
  \/ CpFromFile
  \/ OnFileEvent
  \/ ReadFileDone
  \/ CpFromPipe
  \/ OnLine
  \/ OnClose
  \/ ReadStdinEnd
  \/ DstDocReady
  \/ WriteFileDone
  \/ Exit

Spec == CopyInit /\ [][Next]_vars

(***************************************************************************)
(* CLAIMS                                                                  *)
(***************************************************************************)

(* C3: for every Location L that parseLocation produces from an address
   (the stream "-", a document address, a file path),
   parseLocation(stringifyLocation(L)) equals L. *)
C3_RoundTrip == lpc = "reparsed" => loc2 = loc

\* what does hold: the round trip of every document and file location
C3_RoundTripExceptStream ==
  (lpc = "reparsed" /\ loc.type # "pipe") => loc2 = loc

\* --- helpers for the serialization claims
EndsWithOneNewline(text) ==
  /\ Len(text) >= 1
  /\ text[Len(text)] = "\n"
  /\ (Len(text) >= 2 => text[Len(text) - 1] # "\n")

NoNewlineAtEnd(text) == Len(text) = 0 \/ text[Len(text)] # "\n"

Body(text) == SubSeq(text, 1, Len(text) - 1)

\* one line, no blank between tokens
IsCompact(text) == \A i \in 1..Len(text) : text[i] \notin {" ", "\n"}

\* every member of a non-empty container starts its own line, indented
IsPretty(text, val) ==
  (val.t \in {"object", "array"} /\ Len(val.kids) > 0) =>
    /\ Len(text) > 3
    /\ text[2] = "\n" /\ text[3] = " " /\ text[4] = " "
    /\ text[Len(text) - 1] = "\n"

StructuredCallTo(kind) ==
  /\ last.n > 0
  /\ last.type = "json"
  /\ last.dst.type = kind
  /\ last.thrown = NoError

(* C2 as stated: in Structured mode a value goes to a FilePath as
   pretty-printed text ending in exactly one newline, and to a Stream as
   compact text with no trailing newline. *)
C2_AsStated ==
  /\ StructuredCallTo("file") =>
       /\ EndsWithOneNewline(last.data.a)
       /\ IsPretty(Body(last.data.a), last.val)
  /\ StructuredCallTo("pipe") =>
       /\ NoNewlineAtEnd(last.data.a)
       /\ IsCompact(last.data.a)

(* C2 amended: in Structured mode a value goes to a FilePath as
   pretty-printed text ending in exactly one newline, and to a Stream as
   compact one-line text ending in exactly one newline; both carry the same
   tokens. *)
C2_Serialization ==
  /\ StructuredCallTo("file") =>
       /\ last.data.t = "string"
       /\ EndsWithOneNewline(last.data.a)
       /\ IsPretty(Body(last.data.a), last.val)
       /\ StripWs(last.data.a) = StripWs(JSONstringifyLine(last.val, 0))
  /\ StructuredCallTo("pipe") =>
       /\ last.data.t = "string"
       /\ EndsWithOneNewline(last.data.a)
       /\ IsCompact(Body(last.data.a))
       /\ stdout[Len(stdout)] = last.data

C2_Witness ==
  /\ StructuredCallTo("pipe")
  /\ last.val = ObjNS
  /\ last.n = MaxWrites
  /\ Len(stdout) = MaxWrites

(* C5: a mapping written in Structured mode to a Document at the empty path
   is merged into the root: each key of the value is assigned, every other
   root key keeps its value, after any sequence of such writes. *)
C5_RootMerge ==
  [][(/\ last'.n = last.n + 1
      /\ last'.type = "json"
      /\ last'.dst.type = "automerge"
      /\ Len(last'.dst.path) = 0
      /\ last'.val.t = "object"
      /\ docs[last'.dst.docUrl].t # "undefined")
     => LET before == docs[last'.dst.docUrl]
            after  == docs'[last'.dst.docUrl]
            val    == last'.val
        IN  /\ last'.thrown = NoError
            /\ \A k \in OwnKeys(val) : Prop(after, k) = Prop(val, k)
            /\ \A k \in OwnKeys(before) \ OwnKeys(val) : Prop(after, k) = Prop(before, k)
            /\ OwnKeys(after) = OwnKeys(before) \cup OwnKeys(val)]_vars

C5_Witness ==
  /\ last.n = MaxWrites
  /\ last.type = "json"
  /\ last.dst.type = "automerge"
  /\ Len(last.dst.path) = 0
  /\ last.val = ObjXY
  /\ last.thrown = NoError
  /\ Prop(docs[DstDocUrl], Kz) = Num(<<"9">>)
  /\ Prop(docs[DstDocUrl], Kn) = Num(<<"5">>)
  /\ Prop(docs[DstDocUrl], Ky) = Num(<<"2">>)

\* --- the FileTree of the specification: a TreeFile, or a mapping of names
\* to FileTrees
IsTreeFile(v) ==
  /\ v.t = "object"
  /\ Prop(v, ContentTypeKey).t = "string"
  /\ Prop(v, ContentsKey).t \in {"string", "bytes"}

RECURSIVE IsFileTree(_)
IsFileTree(v) ==
  \/ IsTreeFile(v)
  \/ /\ v.t = "object"
     /\ \A i \in 1..Len(v.kids) : IsFileTree(v.kids[i].v)

RECURSIVE Materialized(_, _, _)
Materialized(v, path, fs) ==
  /\ path \in DOMAIN fs
  /\ IF IsTreeFile(v)
     THEN fs[path] = FileEntry(Prop(v, ContentsKey))
     ELSE /\ fs[path].kind = "dir"
          /\ \A i \in 1..Len(v.kids) :
               Materialized(v.kids[i].v, ChildPath(path, v.kids[i].k), fs)

(* C10: a valid FileTree written in Tree mode to path P, when no file system
   call fails, leaves a file at P holding exactly `contents` for a TreeFile,
   and for a TreeDirectory (also an empty one) a directory at P with every
   entry materialized at P/name; a value with a string contentType and
   string-or-bytes contents is written as a file. *)
C10_Materialize ==
  (/\ last.n > 0
   /\ last.type = "fs"
   /\ last.dst.type = "file"
   /\ IsFileTree(last.val)
   /\ last.thrown.class # "Error")
  => /\ last.thrown = NoError
     /\ Materialized(last.val, last.dst.path, fsys)

C10_Witness ==
  /\ last.n = MaxWrites
  /\ last.type = "fs"
  /\ last.dst.type = "file"
  /\ last.val = DirNested
  /\ last.thrown = NoError
  /\ fsys[ChildPath(ChildPath(DstFile, Kd), Ka)] = FileEntry(Str(<<"1">>))
  /\ fsys[ChildPath(DstFile, Kb)] = FileEntry(Bytes(<<104, 105>>))

\* --- the cp command's combinations
ModeSelected == ~(args.raw /\ args.fs)
TreeMode     == ModeSelected /\ Type = "fs"
RawMode      == ModeSelected /\ Type = "raw"

\* the combinations the compatibility matrix rejects
Disallowed ==
  \/ TreeMode /\ Dst.type \in {"pipe", "automerge"}
  \/ TreeMode /\ Src.type \in {"file", "pipe"}
  \/ RawMode /\ Src.type = "automerge" /\ Dst.type = "automerge"

\* the ConfigurationError of the specification: an illegal combination
IsConfigurationError(e) ==
  /\ e.class = "AMTError"
  /\ e.msg \in {MsgRawAndFs, MsgRawToAutomerge, MsgFsFileSource, MsgFsPipeSource,
                MsgFsDestination}

(* C1: for every combination the matrix disallows, the error is raised
   before any I/O: when it is raised (out of the command, or inside a watch
   listener), no source has been opened or read and nothing written. *)
C1_ErrorBeforeIO ==
  (Disallowed /\ (IsConfigurationError(thrown) \/ IsConfigurationError(last.thrown)))
  => io = {}

\* what does hold: the combinations rejected at the head of cpFrom...
C1_ErrorBeforeIOExceptDocumentTree ==
  (/\ Disallowed
   /\ ~(TreeMode /\ Src.type = "automerge")
   /\ pc \notin {"start", "cpFromAutomerge", "cpFromFile", "cpFromPipe"})
  => /\ pc = "failed"
     /\ IsConfigurationError(thrown)
     /\ io = {}

(* C4: in watch mode, when the processing of one change event or input line
   raises an AMTError, the error is logged, the process does not exit, the
   listener stays registered with the events still to be delivered, and the
   other copies in progress go on. *)
C4_WatchSurvivesError ==
  [][(/\ args.watch
      /\ last'.n = last.n + 1
      /\ last'.thrown.class = "AMTError")
     => /\ pc' = pc
        /\ pc' \notin Terminal
        /\ exitCode' = "none"
        /\ thrown' = NoError
        /\ stderr' = Append(stderr, ErrorLine(last'.thrown))
        /\ (events' = events \/ (events # <<>> /\ events' = Tail(events)))
        /\ (stdin' = stdin \/ (stdin # <<>> /\ stdin' = Tail(stdin)))
        /\ Len(handlers') >= Len(handlers) - 1]_vars

\* an error was logged and a later event was copied
C4_Witness ==
  /\ args.watch
  /\ pc = "watching"
  /\ \E i, j \in 1..Len(stderr) :
       i < j /\ stderr[i].kind = "error" /\ stderr[j].kind = "wrote"
  /\ last.thrown = NoError
  /\ last.n = MaxEvents

(* C6: a copy in Tree mode to a Stream or a Document ends, for every source
   kind, with a ConfigurationError. *)
C6_TreeToNonFileRaises ==
  (/\ TreeMode
   /\ Dst.type \in {"pipe", "automerge"}
   /\ pc \in {"failed", "crashed", "wait", "exited"})
  => IsConfigurationError(thrown)

(* C7: a Raw copy from a Document to a Document throws the
   ConfigurationError at the head of cpFromAutomerge, whatever the paths and
   the watch flag, and no document is opened, read or mutated. *)
C7_RawDocumentToDocument ==
  [][(RawMode /\ Src.type = "automerge" /\ Dst.type = "automerge")
     => /\ (pc = "start" => pc' = "cpFromAutomerge")
        /\ (pc = "cpFromAutomerge" =>
              pc' = "failed" /\ thrown' = AMTError(MsgRawToAutomerge))
        /\ pc \in {"start", "cpFromAutomerge"}
        /\ docs' = docs
        /\ io' = {}
        /\ last' = NoCall
        /\ handlers' = <<>>]_vars

C7_Witness ==
  /\ RawMode
  /\ args.watch
  /\ Src.type = "automerge" /\ Len(Src.path) > 0
  /\ Dst.type = "automerge" /\ Len(Dst.path) > 0
  /\ docs[SrcDocUrl].t = "object" /\ docs[DstDocUrl].t = "object"
  /\ pc = "failed"
  /\ IsConfigurationError(thrown)

(* C8: for a Stream source in Structured mode, the value handed to the
   destination write is the value parsed from the input text (the whole
   stream in one-shot mode, the line in watch mode). *)
C8_ParsedValueWritten ==
  (/\ Src.type = "pipe" /\ ModeSelected /\ Type = "json"
   /\ last.n > 0
   /\ JSONparse(last.input).err = "none")
  => last.val = JSONparse(last.input).v

\* what does hold: in watch mode each line is parsed
C8_ParsedLineWritten ==
  (Src.type = "pipe" /\ ModeSelected /\ Type = "json" /\ last.n > 0 /\ args.watch)
  => JSONparse(last.input) = Ok(last.val)

WroteLines == SelectSeq(stderr, LAMBDA l : l.kind = "wrote")

(* C9: a successful one-shot copy emits exactly one confirmation line when
   the destination is a FilePath or a Document, and none when it is a
   Stream. *)
C9_OneConfirmation ==
  (~args.watch /\ pc \in {"wait", "exited"})
  => Len(WroteLines) = (IF Dst.type = "pipe" THEN 0 ELSE 1)

\* what does hold: the copies that go through onDoc and onFile
C9_OneConfirmationExceptStreamSource ==
  (~args.watch /\ pc \in {"wait", "exited"} /\ Src.type # "pipe")
  => /\ Len(WroteLines) = (IF Dst.type = "pipe" THEN 0 ELSE 1)
     /\ \A i \in 1..Len(WroteLines) :
          WroteLines[i] = Wrote(stringifyLocation(Src))

\* a call of writeToLocation has just finished, on the root of a document
\* that exists, in a mode a document takes
RootWriteDone ==
  /\ last'.n = last.n + 1
  /\ last'.dst.type = "automerge"
  /\ Len(last'.dst.path) = 0
  /\ last'.type # "fs"
  /\ docs[last'.dst.docUrl].t # "undefined"

(* C11: writing to a Document at an empty path a value that is no non-null
   mapping (null, a boolean, a number, a string, a byte sequence, an ordered
   list) raises the shape error and leaves the document root unchanged. *)
C11_NonMappingRejected ==
  [][(RootWriteDone /\ last'.val.t # "object")
     => /\ last'.thrown = AMTError(MsgRootObject)
        /\ docs' = docs]_vars

\* what does hold: the values whose typeof is not "object", and null
C11_PrimitiveRejected ==
  [][(RootWriteDone /\ last'.val.t \notin {"object", "array", "bytes"})
     => /\ last'.thrown = AMTError(MsgRootObject)
        /\ docs' = docs]_vars

\* the copy has gone past the point where it opens its source document
SourceOpened ==
  /\ ModeSelected
  /\ Src.type = "automerge"
  /\ ~RawToAutomerge(Dst, Type)
  /\ pc \notin {"start", "cpFromAutomerge", "awaitSrcDoc"}

NothingWritten ==
  /\ stdout = <<>>
  /\ pending = <<>>
  /\ \A u \in DocUrls : docs[u].t = "undefined" \/ docs[u] \in SrcRoots \cup DstRoots
  /\ DOMAIN fsys \subseteq {SrcFile}

(* C12: whenever the copy addresses a Document that does not exist, as its
   source or as its destination, one-shot or watching, the not-found error
   is raised and ends the process, and nothing is written. *)
C12_NotFoundFatal ==
  /\ (SourceOpened /\ docs[Src.docUrl].t = "undefined")
     => (pc = "failed" /\ thrown = AMTError(MsgNotFound) /\ NothingWritten)
  /\ (/\ last.n > 0 /\ last.type # "fs"
      /\ last.dst.type = "automerge"
      /\ docs[last.dst.docUrl].t = "undefined")
     => (/\ last.thrown = AMTError(MsgNotFound)
         /\ pc \in Terminal \ {"exited"} =>  thrown = AMTError(MsgNotFound))

\* what does hold: the one-shot copy from a document that does not exist
C12_SourceNotFoundOneShot ==
  (SourceOpened /\ ~args.watch /\ docs[Src.docUrl].t = "undefined")
  => (pc = "failed" /\ thrown = AMTError(MsgNotFound) /\ last = NoCall /\ NothingWritten)

\* a watching copy whose listener runs from the event to the start of the
\* write without suspending: a Document or Stream source, a FilePath or
\* Stream destination, a textual mode
WatchesToText ==
  /\ args.watch
  /\ ModeSelected
  /\ Type # "fs"
  /\ Src.type \in {"automerge", "pipe"}
  /\ Dst.type \in {"file", "pipe"}

\* every delivered event has been handled and every write has completed
Quiescent ==
  /\ events = <<>>
  /\ stdin = <<>>
  /\ handlers = <<>>
  /\ pending = <<>>
  /\ pc # "crashed"

(* C13, as stated: in watch mode the write triggered by an earlier event
   takes effect before the write triggered by a later one, so once the
   events have stopped and every handler and write has finished, the
   destination holds the value written for the last event. *)
C13_AsStated ==
  (/\ WatchesToText
   /\ Dst.type = "file"
   /\ Quiescent
   /\ last.n > 0
   /\ last.thrown = NoError)
  => (Dst.path \in DOMAIN fsys /\ fsys[Dst.path] = FileEntry(last.data))

(* C13, amended: in watch mode, for a Document or Stream source and a
   FilePath or Stream destination, the writes are started in the order the
   events are delivered: the step that starts a write takes the oldest
   undelivered event, writes the value read for it, and queues the write
   behind every earlier one (on the stream it takes effect there and then;
   a file write is left in flight). *)
C13_StartedInOrder ==
  [][(WatchesToText /\ last'.n = last.n + 1 /\ last'.thrown = NoError)
     => /\ handlers = <<>> /\ handlers' = <<>>
        /\ (Src.type = "pipe"
              => stdin # <<>> /\ stdin' = Tail(stdin) /\ last'.input = Head(stdin))
        /\ (Src.type = "automerge"
              => /\ events # <<>> /\ events' = Tail(events)
                 /\ Ok(last'.val) = getAtPath(Head(events), Src.path))
        /\ (Dst.type = "pipe"
              => stdout' = Append(stdout, last'.data) /\ pending' = pending)
        /\ (Dst.type = "file"
              => /\ pending' = Append(pending, WriteOp(Dst.path, last'.data))
                 /\ stdout' = stdout)]_vars

C13_Witness ==
  /\ WatchesToText
  /\ Src.type = "pipe"
  /\ Dst.type = "file"
  /\ last.n = 2
  /\ Len(pending) = 2
  /\ pending[1].data # pending[2].data
  /\ pending[2].data = last.data

(* C14: in watch mode the processing of an event runs to completion before
   the processing of the next event of the same source begins: at no time
   are two event handlers in progress. *)
C14_OneHandlerAtATime ==
  args.watch => Len(handlers) <= 1

\* what does hold: a listener that never suspends (a Document or Stream
\* source copied to a FilePath or Stream) has finished before the next runs
C14_SynchronousListeners ==
  WatchesToText => handlers = <<>>

\* --- setAtPath and getAtPath
\* the value under the first n keys of path
AtPrefix(doc, path, n) == getAtPath(doc, SubSeq(path, 1, n))

\* every container the walk of setAtPath steps through, the one that takes
\* the assignment included, is there and is an object or a list
ContainersExist(doc, path) ==
  \A n \in 0..(Len(path) - 1) :
    /\ AtPrefix(doc, path, n).err = "none"
    /\ AtPrefix(doc, path, n).v.t \in {"object", "array"}

LastKey(path) == path[Len(path)]

(* C15: after setAtPath(root, path, v) with a non-empty path whose
   intermediate containers already exist, getAtPath(root, path) returns v,
   no container on the way has been created or replaced (each keeps its kind
   and its keys, the last one gaining at most the last key of the path), and
   the value at every path that is neither a prefix nor an extension of
   `path` is what it was. *)
C15_SetThenGet ==
  (ppc = "got" /\ Len(pathKeys) > 0 /\ ContainersExist(pathRoot, pathKeys))
  => /\ pathSet.err = "none"
     /\ pathGot = Ok(pathValue)
     /\ \A n \in 0..(Len(pathKeys) - 1) :
          LET before == AtPrefix(pathRoot, pathKeys, n).v
              after  == AtPrefix(pathSet.v, pathKeys, n).v
          IN  /\ after.t = before.t
              /\ OwnKeys(after) =
                   OwnKeys(before) \cup
                     (IF n = Len(pathKeys) - 1 THEN {LastKey(pathKeys)} ELSE {})
     /\ \A q \in Paths :
          (~StartsWith(q, pathKeys) /\ ~StartsWith(pathKeys, q))
          => getAtPath(pathSet.v, q) = getAtPath(pathRoot, q)

C15_Witness ==
  /\ ppc = "got"
  /\ pathKeys = <<Ka, Kb, Ka>>
  /\ ContainersExist(pathRoot, pathKeys)
  /\ pathValue = Str(<<"x">>)
  /\ pathGot = Ok(pathValue)
  /\ getAtPath(pathRoot, pathKeys) = Ok(Undefined)
  /\ getAtPath(pathSet.v, <<Ka, Kb, Kz>>) = Ok(Num(<<"1">>))
  /\ getAtPath(pathSet.v, <<Kz>>) = Ok(Num(<<"9">>))

ExitedWithSuccess == pc = "exited" /\ exitCode = "0"

(* C16: whenever the process exits with the success status (after a
   one-shot copy, or after the input stream closed in watch mode), no
   destination write for a value read or a line received before is still in
   flight or not yet started. *)
C16_NothingPendingAtExit ==
  ExitedWithSuccess => (pending = <<>> /\ handlers = <<>>)

\* what does hold: a one-shot copy awaits everything but fsP.writeFile
C16_OneShotAwaitedAtExit ==
  (ExitedWithSuccess /\ ~args.watch)
  => (handlers = <<>> /\ (Dst.type # "file" => pending = <<>>))

\* a confirmation line is written in this step
ConfirmationWritten == Len(WroteLines') = Len(WroteLines) + 1

(* C17: the confirmation line "wrote <src> to <dst>" is written only once
   the destination write it reports has completed successfully: never for a
   write that is still in flight, or that fails. *)
C17_ConfirmAfterWrite ==
  [][ConfirmationWritten
     => /\ last'.n = last.n + 1
        /\ last'.thrown = NoError
        /\ Len(pending') <= Len(pending)]_vars

\* what does hold: the confirmation follows a call of writeToLocation that
\* returned without an error; the write to a Document, and the tree written
\* in Tree mode, are complete by then
C17_ConfirmAfterReturn ==
  [][ConfirmationWritten
     => /\ last'.n = last.n + 1
        /\ last'.thrown = NoError
        /\ ((Dst.type = "automerge" \/ Type = "fs") => pending' = <<>>)]_vars

\* --- the classification of the specification: a value qualifies as a tree
\* when it is a TreeFile, or an object all of whose own property values
\* qualify (the own property values of a byte sequence are its bytes)
RECURSIVE QualifiesAsTree(_)
QualifiesAsTree(v) ==
  \/ IsTreeFile(v)
  \/ /\ v.t \in {"object", "array", "bytes"}
     /\ Len(v.b) = 0
     /\ \A i \in 1..Len(v.kids) : QualifiesAsTree(v.kids[i].v)

\* a call of writeToLocation in Tree mode to a FilePath has just finished
TreeWriteDone ==
  /\ last'.n = last.n + 1
  /\ last'.type = "fs"
  /\ last'.dst.type = "file"

(* C18: in Tree mode to a FilePath destination, a value that does not
   qualify as a FileTree, at whatever depth the offending entry lies, is
   refused with the shape error before any file is written or directory
   created: the file system is as it was before the call. *)
C18_InvalidTreeRejected ==
  [][(TreeWriteDone /\ ~QualifiesAsTree(last'.val))
     => /\ last'.thrown = AMTError(MsgNotAMFS)
        /\ fsys' = fsys
        /\ pending' = pending
        /\ stdout' = stdout]_vars

C18_Witness ==
  /\ last.n = 2
  /\ last.type = "fs"
  /\ last.dst.type = "file"
  /\ last.val = DirDeepBad
  /\ last.thrown = AMTError(MsgNotAMFS)
  /\ DOMAIN fsys = {DstFile, ChildPath(DstFile, Ka), ChildPath(DstFile, Kb)}
  /\ fsys[ChildPath(DstFile, Kb)] = FileEntry(Str(<<"2">>))

=============================================================================
